---------------------------- MODULE Spec2Model ----------------------------
(***************************************************************************)
(* Model of the Lifinity custom-oracle update scripts.                     *)
(*                                                                         *)
(* Two programs are modelled: the publisher's main loop (class Main, in    *)
(* its Jupiter and mSOL variants) and the delivery routine                 *)
(* transactionSenderAndConfirmationWaiter.  Every action is one JavaScript *)
(* continuation: the code that runs, without interruption, from the        *)
(* moment an awaited call settles until the next await.  Times are in      *)
(* milliseconds; the wall clock advances in steps of Quantum.              *)
(*                                                                         *)
(* Numbers are exact (integers / cross-multiplied ratios); IEEE-754        *)
(* rounding of the deviation is not modelled.                              *)
(***************************************************************************)
EXTENDS Integers, Sequences, FiniteSets, TLC

VARIABLES
    cfg,          \* the parsed configuration (or NoConfig), read once by run()
    clock,        \* wall clock: Date.now() / getUnixTs()
    done,         \* BasicRunnable._done
    pc,           \* the await at which main() is suspended
    now,          \* the tick's `const now`
    wake,         \* due time of the sleep main() is suspended on
    pending,      \* arguments of the updatePrice call awaiting its blockhash
    lastUpdate,   \* Main.lastUpdate
    lastPrice,    \* Main.lastPrice
    lastStatus,   \* Main.lastStatus
    connected,    \* a Connection object has been constructed
    dec,          \* log of the tick's needUpdate call (inputs and outcome)
    inact,        \* log of the tick's inactivity check (inputs and outcome)
    deliveries,   \* the transactionSenderAndConfirmationWaiter invocations
    count,        \* the sample script's loop counter i
    tx            \* composeUpdatePriceTransaction: its arguments and the instruction data

vars == <<cfg, clock, done, pc, now, wake, pending, lastUpdate, lastPrice,
          lastStatus, connected, dec, inact, deliveries, count, tx>>

mainVars == <<cfg, done, pc, now, wake, pending, lastUpdate, lastPrice,
              lastStatus, connected, dec, inact, count, tx>>

-----------------------------------------------------------------------------
(* Bounds of the model *)

\* Date.now() at process start (milliseconds since 1970: far above any interval)
Epoch == 100000

\* the clock advances in steps of Quantum ms
Quantum == 500

\* the publisher is explored for MaxElapsed ms after process start
MaxElapsed == 2000

\* outer backoffs that are waited out
MaxBackoffs == 1

\* main() with its deliveries is explored for MaxSystemElapsed ms
MaxSystemElapsed == 500

\* delivery deadlines (TX_DURATION) that are waited out
MaxTimeouts == 1

\* the sample script is explored for MaxSampleElapsed ms
MaxSampleElapsed == 6000

\* instruction data is composed for prices up to MaxPayloadPrice either way
MaxPayloadPrice == 30000

\* a single delivery is explored for MaxDeliveryElapsed ms
MaxDeliveryElapsed == 6000

\* at most MaxDeliveries deliveries are launched in one run
MaxDeliveries == 2

-----------------------------------------------------------------------------
(* Program constants *)

OUTER_INTERVAL == 10000

TX_DURATION == 120000

DefaultPollInterval == 1000

DefaultSendInterval == 5000

DefaultSendRetries == 40

\* the fixed wait raced against the status query: sleep(1500)
RaceWait == 1500

Valid == 1

\* `price: price * 100_000_000`
PriceScale == 100000000

\* `confidence: confidence * 10_000`
ConfidenceScale == 10000

\* `instruction: 0`
UpdatePriceInstruction == 0

\* the sample script: `for (let i = 0; i < 5; ++i) await sleep(1000)`
SampleLoops == 5

SampleWait == 1000

Invalid == 0

-----------------------------------------------------------------------------
(* transactionSenderAndConfirmationWaiter *)

\* (price, status, kind and now record the updatePrice call that started it.)
\* The call itself: the function serializes the transaction and issues the
\* first sendRawTransaction before it suspends.  confirmAt describes the
\* channel: its status queries answer with a confirmation from the
\* confirmAt-th query on (0: never).
transactionSenderAndConfirmationWaiter(timeout, pollInterval, sendInterval, sendRetries, confirmAt, price, status, kind, t) ==
    [ pc |-> "send", timeout |-> timeout, pollInterval |-> pollInterval,
      sendInterval |-> sendInterval, sendRetries |-> sendRetries,
      confirmAt |-> confirmAt,
      start |-> 0, lastSendTimestamp |-> 0, retries |-> 0, timestamp |-> 0,
      probeAt |-> 0, wake |-> 0, confirmed |-> FALSE,
      broadcasts |-> 1, queries |-> 0, slow |-> 0, endAt |-> 0,
      price |-> price, status |-> status, kind |-> kind, now |-> t ]

\* Promise.any([getTransaction(txid), sleep(1500)]) is started
StartProbe(d, t) ==
    [d EXCEPT !.pc = "probe", !.probeAt = t, !.queries = @ + 1]

MustResend_atInterval(d, t) ==
    d.retries < d.sendRetries /\ t - d.lastSendTimestamp >= d.sendInterval

MustResend_offByOne(d, t) ==
    d.retries <= d.sendRetries /\ t - d.lastSendTimestamp > d.sendInterval

\* `retries < sendRetries && timestamp - lastSendTimestamp > sendInterval`
MustResend(d, t) ==
    d.retries < d.sendRetries /\ t - d.lastSendTimestamp > d.sendInterval

Iterate_fromLastSend(d, t) ==
    IF t - d.lastSendTimestamp < d.timeout
    THEN IF MustResend(d, t)
         THEN [d EXCEPT !.pc = "resend", !.timestamp = t,
                        !.lastSendTimestamp = t, !.retries = @ + 1,
                        !.broadcasts = @ + 1]
         ELSE StartProbe([d EXCEPT !.timestamp = t], t)
    ELSE [d EXCEPT !.pc = "done", !.confirmed = FALSE, !.endAt = t]

Iterate_noDeadline(d, t) ==
    IF MustResend(d, t)
    THEN [d EXCEPT !.pc = "resend", !.timestamp = t,
                   !.lastSendTimestamp = t, !.retries = @ + 1,
                   !.broadcasts = @ + 1]
    ELSE StartProbe([d EXCEPT !.timestamp = t], t)

\* One pass through the head of the while loop at time t: the deadline test,
\* the rebroadcast decision, and the call that the iteration suspends on.
Iterate(d, t) ==
    IF t - d.start < d.timeout
    THEN IF MustResend(d, t)
         THEN [d EXCEPT !.pc = "resend", !.timestamp = t,
                        !.lastSendTimestamp = t, !.retries = @ + 1,
                        !.broadcasts = @ + 1]
         ELSE StartProbe([d EXCEPT !.timestamp = t], t)
    ELSE [d EXCEPT !.pc = "done", !.confirmed = FALSE, !.endAt = t]

\* the status query's answer: a confirmation, or null
Confirms(d) == d.confirmAt # 0 /\ d.queries >= d.confirmAt

\* the first sendRawTransaction settles
SendReturn(i, ok) ==
    /\ deliveries[i].pc = "send"
    /\ deliveries' = [deliveries EXCEPT ![i] =
          IF ok
          THEN Iterate([@ EXCEPT !.start = clock, !.lastSendTimestamp = clock], clock)
          ELSE [@ EXCEPT !.pc = "rejected", !.endAt = clock]]
    /\ UNCHANGED <<clock, mainVars>>

\* a rebroadcast sendRawTransaction settles
ResendReturn(i, ok) ==
    /\ deliveries[i].pc = "resend"
    /\ deliveries' = [deliveries EXCEPT ![i] =
          IF ok
          THEN StartProbe(@, clock)
          ELSE [@ EXCEPT !.pc = "rejected", !.endAt = clock]]
    /\ UNCHANGED <<clock, mainVars>>

\* `if (response) return {...}; await sleep(pollInterval)` after the race
\* (slow counts the races settled by the fixed wait)
AfterRace_noReturn(d, response, won, t) ==
    [d EXCEPT !.pc = "poll", !.wake = t + d.pollInterval,
              !.slow = IF won THEN @ ELSE @ + 1]

AfterRace_lateReturn(d, response, won, t) ==
    [d EXCEPT !.pc = "poll", !.wake = t + d.pollInterval,
              !.confirmed = response,
              !.slow = IF won THEN @ ELSE @ + 1]

AfterRace_remainder(d, response, won, t) ==
    IF response
    THEN [d EXCEPT !.pc = "done", !.confirmed = TRUE, !.endAt = t]
    ELSE [d EXCEPT !.pc = "poll", !.wake = d.timestamp + d.pollInterval,
                   !.slow = IF won THEN @ ELSE @ + 1]

AfterRace(d, response, won, t) ==
    IF response
    THEN [d EXCEPT !.pc = "done", !.confirmed = TRUE, !.endAt = t]
    ELSE [d EXCEPT !.pc = "poll", !.wake = t + d.pollInterval,
                   !.slow = IF won THEN @ ELSE @ + 1]

ProbeAnswer_writes(i) ==
    /\ deliveries[i].pc = "probe"
    /\ deliveries' = [deliveries EXCEPT ![i] = AfterRace(@, Confirms(@), TRUE, clock)]
    /\ lastUpdate' = IF Confirms(deliveries[i]) THEN clock ELSE lastUpdate
    /\ UNCHANGED <<clock, cfg, done, pc, now, wake, pending, lastPrice,
                   lastStatus, connected, dec, inact, count, tx>>

\* getTransaction fulfils first: Promise.any settles with its answer
ProbeAnswer(i) ==
    /\ deliveries[i].pc = "probe"
    /\ deliveries' = [deliveries EXCEPT ![i] = AfterRace(@, Confirms(@), TRUE, clock)]
    /\ UNCHANGED <<clock, mainVars>>

\* sleep(1500) fulfils first (the query is slow, hangs, or was rejected):
\* Promise.any settles with undefined
ProbeTimer(i) ==
    /\ deliveries[i].pc = "probe"
    /\ clock >= deliveries[i].probeAt + RaceWait
    /\ deliveries' = [deliveries EXCEPT ![i] = AfterRace(@, FALSE, FALSE, clock)]
    /\ UNCHANGED <<clock, mainVars>>

\* sleep(pollInterval) fulfils: the loop head runs again
PollWake(i) ==
    /\ deliveries[i].pc = "poll"
    /\ clock >= deliveries[i].wake
    /\ deliveries' = [deliveries EXCEPT ![i] = Iterate(@, clock)]
    /\ UNCHANGED <<clock, mainVars>>

DeliveryStep ==
    \E i \in DOMAIN deliveries :
        \/ \E ok \in BOOLEAN : SendReturn(i, ok)
        \/ \E ok \in BOOLEAN : ResendReturn(i, ok)
        \/ ProbeAnswer(i)
        \/ ProbeTimer(i)
        \/ PollWake(i)

-----------------------------------------------------------------------------
(* One delivery against a scripted channel *)

\* readToml returned null (variant: the script that was started)
NoConfigOf(variant) ==
    [ present |-> FALSE, variant |-> variant, fetchInterval |-> 0,
      updateThreshold |-> 0, updateInterval |-> 0, inactiveDuration |-> 0,
      minThreshold |-> 0, maxThreshold |-> 0, allowNegativeSpread |-> FALSE ]

NoConfig == NoConfigOf("msol")

NoTx == [price |-> 0, confidence |-> 0, status |-> 0, data |-> << >>]

NoPending == [kind |-> "none", price |-> 0, status |-> 0, now |-> 0]

NoDec == [result |-> "none", price |-> 0, bid |-> 0, ask |-> 0, now |-> 0,
          lastUpdate |-> 0, lastPrice |-> 0]

NoInact == [result |-> "none", now |-> 0, lastUpdate |-> 0, lastStatus |-> 0]

Timeouts == {2000, 3000}

PollIntervals == {1000}

SendIntervals == {500, 1000}

SendRetriesSet == {0, 1, 2}

ConfirmAts == {0, 1, 2, 3}

AdvanceDeliveryClock ==
    /\ clock + Quantum <= Epoch + MaxDeliveryElapsed
    /\ clock' = clock + Quantum
    /\ UNCHANGED <<mainVars, deliveries>>

InitDelivery ==
    /\ cfg = NoConfig
    /\ clock = Epoch
    /\ done = FALSE
    /\ pc = "init"
    /\ now = 0
    /\ wake = 0
    /\ pending = NoPending
    /\ lastUpdate = 0
    /\ lastPrice = 0
    /\ lastStatus = 0
    /\ connected = FALSE
    /\ dec = NoDec
    /\ inact = NoInact
    /\ count = 0
    /\ tx = NoTx
    /\ \E to \in Timeouts, pi \in PollIntervals, si \in SendIntervals,
          sr \in SendRetriesSet, n \in ConfirmAts :
          deliveries = << transactionSenderAndConfirmationWaiter(
                              to, pi, si, sr, n, 100, Valid, "obs", Epoch) >>

NextDelivery == DeliveryStep \/ AdvanceDeliveryClock

SpecDelivery == InitDelivery /\ [][NextDelivery]_vars

-----------------------------------------------------------------------------
(* The publisher: BasicRunnable.run and Main.main *)

Variants == {"jupiter", "msol"}

FetchIntervals == {500}

UpdateThresholds == {1, 5}

UpdateIntervals == {1000}

InactiveDurations == {0, 500, 1000, 1500}

\* the toml files readToml can hand to main: none, or one per variant
\* (the mSOL script never reads minThreshold, maxThreshold or
\* allowNegativeSpread: its prices lie on both sides of the bounds)
Configs ==
    { NoConfigOf(v) : v \in Variants }
    \cup [ present : {TRUE}, variant : {"jupiter"},
           fetchInterval : FetchIntervals, updateThreshold : UpdateThresholds,
           updateInterval : UpdateIntervals, inactiveDuration : InactiveDurations,
           minThreshold : {101}, maxThreshold : {104},
           allowNegativeSpread : BOOLEAN ]
    \cup [ present : {TRUE}, variant : {"msol"},
           fetchInterval : FetchIntervals, updateThreshold : UpdateThresholds,
           updateInterval : UpdateIntervals, inactiveDuration : InactiveDurations,
           minThreshold : {101}, maxThreshold : {104},
           allowNegativeSpread : {FALSE} ]

\* what one observation fetch can yield.  Jupiter: both routes (bid, ask),
\* a missing route, or an error; Marinade: mSolPrice (0: falsy) or an error.
Quotes == { <<0, 0>>, <<100, 100>>, <<100, 104>>, <<104, 100>>, <<105, 105>> }

MSolPrices == {0, 100, 102, 105}

Observations(variant) ==
    IF variant = "jupiter"
    THEN {[kind |-> "throw", bid |-> 0, ask |-> 0], [kind |-> "none", bid |-> 0, ask |-> 0]}
         \cup { [kind |-> "quote", bid |-> q[1], ask |-> q[2]] : q \in Quotes }
    ELSE {[kind |-> "throw", bid |-> 0, ask |-> 0]}
         \cup { [kind |-> "price", bid |-> p, ask |-> p] : p \in MSolPrices }

Abs(x) == IF x < 0 THEN -x ELSE x

getMarkPrice(bid, ask) == (bid + ask) \div 2

needUpdate_noTimeRule(price, t) ==
    IF lastPrice = 0 THEN "assert"
    ELSE IF Abs((price - lastPrice) * 100) > cfg.updateThreshold * Abs(lastPrice)
         THEN "true" ELSE "false"

needUpdate_doubleInterval(price, t) ==
    IF t > lastUpdate + 2 * cfg.updateInterval THEN "true"
    ELSE IF lastPrice = 0 THEN "assert"
    ELSE IF Abs((price - lastPrice) * 100) > cfg.updateThreshold * Abs(lastPrice)
         THEN "true" ELSE "false"

needUpdate_atBoundary(price, t) ==
    IF t >= lastUpdate + cfg.updateInterval THEN "true"
    ELSE IF lastPrice = 0 THEN "assert"
    ELSE IF Abs((price - lastPrice) * 100) > cfg.updateThreshold * Abs(lastPrice)
         THEN "true" ELSE "false"

\* Main.needUpdate: "true", "false", or "assert" when assert(this.lastPrice)
\* throws.  deviation > updateThreshold is compared cross-multiplied.
needUpdate(price, t) ==
    IF t > lastUpdate + cfg.updateInterval THEN "true"
    ELSE IF lastPrice = 0 THEN "assert"
    ELSE IF Abs((price - lastPrice) * 100) > cfg.updateThreshold * Abs(lastPrice)
         THEN "true" ELSE "false"

StatusOf_everyVariant(bid, ask, price) ==
    LET negativeSpread == bid > ask
        outOfThreshold == price < cfg.minThreshold \/ cfg.maxThreshold < price
    IN  IF (~cfg.allowNegativeSpread /\ negativeSpread) \/ outOfThreshold
        THEN Invalid ELSE Valid

StatusOf_ignoreSpread(bid, ask, price) ==
    IF cfg.variant = "msol" THEN Valid
    ELSE IF price < cfg.minThreshold \/ cfg.maxThreshold < price
         THEN Invalid ELSE Valid

\* the status of an observation-triggered publish: Jupiter computes it from
\* the spread and the price bounds, the mSOL script passes the literal 1
StatusOf(bid, ask, price) ==
    IF cfg.variant = "msol" THEN Valid
    ELSE LET negativeSpread == bid > ask
             outOfThreshold == price < cfg.minThreshold \/ cfg.maxThreshold < price
         IN  IF (~cfg.allowNegativeSpread /\ negativeSpread) \/ outOfThreshold
             THEN Invalid ELSE Valid

\* `if (this.inactiveDuration && this.inactiveDuration < this.updateInterval) return`
StartupRefused ==
    cfg.inactiveDuration # 0 /\ cfg.inactiveDuration < cfg.updateInterval

InactivityDue_noStatus(lu, ls) ==
    cfg.inactiveDuration # 0 /\ now > lu + cfg.inactiveDuration

\* `this.inactiveDuration && now > this.lastUpdate + this.inactiveDuration && this.lastStatus`
InactivityDue(lu, ls) ==
    cfg.inactiveDuration # 0 /\ now > lu + cfg.inactiveDuration /\ ls # 0

\* main() returns
Return_keepsRunning ==
    pc' = "sleeping" /\ wake' = clock + cfg.fetchInterval

\* main() leaves both loops and returns
Return ==
    /\ pc' = "returned"
    /\ UNCHANGED wake

PreSleep_noCheck ==
    pc' = "sleeping" /\ wake' = clock + cfg.fetchInterval

\* `if (!this._done) await sleep(this.fetchInterval)`, and when the flag is
\* set the inner and the outer loop tests that follow at once
PreSleep ==
    IF ~done
    THEN pc' = "sleeping" /\ wake' = clock + cfg.fetchInterval
    ELSE Return

Catch_rethrows ==
    Return

\* the catch block and `if (!this._done) await sleep(OUTER_INTERVAL)`
Catch ==
    IF ~done
    THEN pc' = "backoff" /\ wake' = clock + OUTER_INTERVAL
    ELSE Return

InactivityCheck_zeroPrice(lu, lp, ls) ==
    /\ inact' = [result |-> IF InactivityDue(lu, ls) THEN "fired" ELSE "skipped",
                 now |-> now, lastUpdate |-> lu, lastStatus |-> ls]
    /\ IF InactivityDue(lu, ls)
       THEN /\ pending' = [kind |-> "inact", price |-> 0, status |-> Invalid, now |-> now]
            /\ pc' = "blockhash"
            /\ UNCHANGED wake
       ELSE /\ pending' = NoPending
            /\ PreSleep

InactivityCheck_keepsValid(lu, lp, ls) ==
    /\ inact' = [result |-> IF InactivityDue(lu, ls) THEN "fired" ELSE "skipped",
                 now |-> now, lastUpdate |-> lu, lastStatus |-> ls]
    /\ IF InactivityDue(lu, ls)
       THEN /\ pending' = [kind |-> "inact", price |-> lp, status |-> Valid, now |-> now]
            /\ pc' = "blockhash"
            /\ UNCHANGED wake
       ELSE /\ pending' = NoPending
            /\ PreSleep

\* the inactivity rule of a tick, on the oracle state (lu, lp, ls) it finds
InactivityCheck(lu, lp, ls) ==
    /\ inact' = [result |-> IF InactivityDue(lu, ls) THEN "fired" ELSE "skipped",
                 now |-> now, lastUpdate |-> lu, lastStatus |-> ls]
    /\ IF InactivityDue(lu, ls)
       THEN /\ pending' = [kind |-> "inact", price |-> lp, status |-> Invalid, now |-> now]
            /\ pc' = "blockhash"
            /\ UNCHANGED wake
       ELSE /\ pending' = NoPending
            /\ PreSleep

InnerLoop_noCheck ==
    /\ dec' = NoDec
    /\ inact' = NoInact
    /\ pc' = "fetching" /\ now' = clock /\ UNCHANGED wake

\* top of the inner loop: the tick reads the clock and starts its fetch
InnerLoop ==
    /\ dec' = NoDec
    /\ inact' = NoInact
    /\ IF done
       THEN Return /\ UNCHANGED now
       ELSE pc' = "fetching" /\ now' = clock /\ UNCHANGED wake

\* top of the outer loop: the connection and the venue handle are rebuilt
OuterLoop ==
    IF done
    THEN Return /\ UNCHANGED <<connected, now, dec, inact>>
    ELSE /\ connected' = TRUE
         /\ IF cfg.variant = "jupiter"
            THEN pc' = "loading" /\ UNCHANGED <<wake, now, dec, inact>>
            ELSE InnerLoop

\* run() calls main(config): the configuration checks
MainStart ==
    /\ pc = "init"
    /\ IF ~cfg.present THEN Return /\ UNCHANGED <<connected, now, dec, inact>>
       ELSE IF StartupRefused THEN Return /\ UNCHANGED <<connected, now, dec, inact>>
       ELSE IF cfg.variant = "jupiter"
            THEN pc' = "tokens" /\ UNCHANGED <<wake, connected, now, dec, inact>>
            ELSE OuterLoop
    /\ UNCHANGED <<tx, count, cfg, clock, done, pending, lastUpdate, lastPrice, lastStatus,
                   deliveries>>

\* Jupiter: the token list fetch settles
TokensReturn(result) ==
    /\ pc = "tokens"
    /\ IF result = "ok" THEN OuterLoop
       ELSE Return /\ UNCHANGED <<connected, now, dec, inact>>
    /\ UNCHANGED <<tx, count, cfg, clock, done, pending, lastUpdate, lastPrice, lastStatus,
                   deliveries>>

\* Jupiter.load settles
LoadReturn(ok) ==
    /\ pc = "loading"
    /\ IF ok THEN InnerLoop ELSE Catch /\ UNCHANGED <<now, dec, inact>>
    /\ UNCHANGED <<tx, count, cfg, clock, done, pending, lastUpdate, lastPrice, lastStatus,
                   connected, deliveries>>

\* The observation fetch settles (the two getBestRoute calls, or
\* getMarinadeState): the decision, the status, and either the start of
\* updatePrice or the inactivity rule and the sleep.
FetchReturn(o) ==
    /\ pc = "fetching"
    /\ LET usable == o.kind = "quote" \/ (o.kind = "price" /\ o.bid # 0)
           price  == IF o.kind = "quote" THEN getMarkPrice(o.bid, o.ask) ELSE o.bid
           r      == needUpdate(price, now)
           log    == [result |-> r, price |-> price, bid |-> o.bid, ask |-> o.ask,
                      now |-> now,
                      lastUpdate |-> lastUpdate, lastPrice |-> lastPrice]
       IN  IF o.kind = "throw"
           THEN Catch /\ pending' = NoPending /\ UNCHANGED <<dec, inact>>
           ELSE IF ~usable
           THEN InactivityCheck(lastUpdate, lastPrice, lastStatus) /\ UNCHANGED dec
           ELSE /\ dec' = log
                /\ IF r = "assert"
                   THEN Catch /\ pending' = NoPending /\ UNCHANGED inact
                   ELSE IF r = "true"
                   THEN /\ pending' = [kind |-> "obs", price |-> price,
                                       status |-> StatusOf(o.bid, o.ask, price),
                                       now |-> now]
                        /\ pc' = "blockhash"
                        /\ UNCHANGED <<wake, inact>>
                   ELSE InactivityCheck(lastUpdate, lastPrice, lastStatus)
    /\ UNCHANGED <<tx, count, cfg, clock, done, now, lastUpdate, lastPrice, lastStatus,
                   connected, deliveries>>

BlockhashReturn_noWrite(ok, confirmAt) ==
    /\ pc = "blockhash"
    /\ IF ~ok
       THEN /\ Catch
            /\ pending' = NoPending
            /\ UNCHANGED <<lastUpdate, lastPrice, lastStatus, deliveries, inact>>
       ELSE /\ Len(deliveries) < MaxDeliveries
            /\ deliveries' = Append(deliveries,
                  transactionSenderAndConfirmationWaiter(
                      TX_DURATION, DefaultPollInterval, DefaultSendInterval,
                      DefaultSendRetries, confirmAt,
                      pending.price, pending.status, pending.kind, pending.now))
            /\ UNCHANGED <<lastPrice, lastStatus, lastUpdate>>
            /\ IF pending.kind = "obs"
               THEN InactivityCheck(pending.now, pending.price, pending.status)
               ELSE pending' = NoPending /\ PreSleep /\ UNCHANGED inact
    /\ UNCHANGED <<tx, count, cfg, clock, done, now, connected, dec>>

BlockhashReturn_awaits(ok, confirmAt) ==
    /\ pc = "blockhash"
    /\ IF ~ok
       THEN /\ Catch
            /\ pending' = NoPending
            /\ UNCHANGED <<lastUpdate, lastPrice, lastStatus, deliveries, inact>>
       ELSE /\ Len(deliveries) < MaxDeliveries
            /\ deliveries' = Append(deliveries,
                  [transactionSenderAndConfirmationWaiter(
                      TX_DURATION, DefaultPollInterval, DefaultSendInterval,
                      DefaultSendRetries, confirmAt,
                      pending.price, pending.status, pending.kind, pending.now)
                   EXCEPT !.pc = "done", !.confirmed = (confirmAt # 0)])
            /\ lastPrice' = pending.price
            /\ lastStatus' = pending.status
            /\ lastUpdate' = pending.now
            /\ IF pending.kind = "obs"
               THEN InactivityCheck(pending.now, pending.price, pending.status)
               ELSE pending' = NoPending /\ PreSleep /\ UNCHANGED inact
    /\ UNCHANGED <<tx, count, cfg, clock, done, now, connected, dec>>

BlockhashReturn_staleCheck(ok, confirmAt) ==
    /\ pc = "blockhash"
    /\ IF ~ok
       THEN /\ Catch
            /\ pending' = NoPending
            /\ UNCHANGED <<lastUpdate, lastPrice, lastStatus, deliveries, inact>>
       ELSE /\ Len(deliveries) < MaxDeliveries
            /\ deliveries' = Append(deliveries,
                  transactionSenderAndConfirmationWaiter(
                      TX_DURATION, DefaultPollInterval, DefaultSendInterval,
                      DefaultSendRetries, confirmAt,
                      pending.price, pending.status, pending.kind, pending.now))
            /\ lastPrice' = pending.price
            /\ lastStatus' = pending.status
            /\ lastUpdate' = pending.now
            /\ IF pending.kind = "obs"
               THEN InactivityCheck(lastUpdate, lastPrice, lastStatus)
               ELSE pending' = NoPending /\ PreSleep /\ UNCHANGED inact
    /\ UNCHANGED <<tx, count, cfg, clock, done, now, connected, dec>>

\* updatePrice resumes with the blockhash: it signs, starts the delivery
\* without awaiting it and writes the oracle state; the tick then goes on
\* with the inactivity rule (after an observation publish) or the sleep.
\* A failed getLatestBlockhash throws into the catch block.
BlockhashReturn(ok, confirmAt) ==
    /\ pc = "blockhash"
    /\ IF ~ok
       THEN /\ Catch
            /\ pending' = NoPending
            /\ UNCHANGED <<lastUpdate, lastPrice, lastStatus, deliveries, inact>>
       ELSE /\ Len(deliveries) < MaxDeliveries
            /\ deliveries' = Append(deliveries,
                  transactionSenderAndConfirmationWaiter(
                      TX_DURATION, DefaultPollInterval, DefaultSendInterval,
                      DefaultSendRetries, confirmAt,
                      pending.price, pending.status, pending.kind, pending.now))
            /\ lastPrice' = pending.price
            /\ lastStatus' = pending.status
            /\ lastUpdate' = pending.now
            /\ IF pending.kind = "obs"
               THEN InactivityCheck(pending.now, pending.price, pending.status)
               ELSE pending' = NoPending /\ PreSleep /\ UNCHANGED inact
    /\ UNCHANGED <<tx, count, cfg, clock, done, now, connected, dec>>

\* sleep(fetchInterval) fulfils
SleepWake ==
    /\ pc = "sleeping"
    /\ clock >= wake
    /\ InnerLoop
    /\ UNCHANGED <<tx, count, cfg, clock, done, pending, lastUpdate, lastPrice, lastStatus,
                   connected, deliveries>>

BackoffWake_resetsState ==
    /\ pc = "backoff"
    /\ clock >= wake
    /\ OuterLoop
    /\ lastUpdate' = 0
    /\ lastPrice' = 0
    /\ lastStatus' = 0
    /\ UNCHANGED <<tx, count, cfg, clock, done, pending, deliveries>>

\* sleep(OUTER_INTERVAL) fulfils
BackoffWake ==
    /\ pc = "backoff"
    /\ clock >= wake
    /\ OuterLoop
    /\ UNCHANGED <<tx, count, cfg, clock, done, pending, lastUpdate, lastPrice, lastStatus,
                   deliveries>>

\* SIGINT: BasicRunnable.onInterrupt
Interrupt ==
    /\ pc # "init"
    /\ ~done
    /\ done' = TRUE
    /\ UNCHANGED <<tx, count, cfg, clock, pc, now, wake, pending, lastUpdate, lastPrice,
                   lastStatus, connected, dec, inact, deliveries>>

\* Time passes.  The clock is explored in steps of Quantum for MaxElapsed ms
\* in all; while main() sits in the outer backoff, the OUTER_INTERVAL of
\* waiting may also pass in one step (at most MaxBackoffs times).
AdvanceClock ==
    /\ \/ /\ ((clock - Epoch) % OUTER_INTERVAL) + Quantum <= MaxElapsed
          /\ clock' = clock + Quantum
       \/ /\ pc = "backoff"
          /\ (clock - Epoch) \div OUTER_INTERVAL < MaxBackoffs
          /\ clock' = clock + OUTER_INTERVAL
    /\ UNCHANGED <<mainVars, deliveries>>

Init ==
    /\ cfg \in Configs
    /\ clock = Epoch
    /\ done = FALSE
    /\ pc = "init"
    /\ now = 0
    /\ wake = 0
    /\ pending = NoPending
    /\ lastUpdate = 0
    /\ lastPrice = 0
    /\ lastStatus = 0
    /\ connected = FALSE
    /\ dec = NoDec
    /\ inact = NoInact
    /\ deliveries = << >>
    /\ count = 0
    /\ tx = NoTx

\* The deliveries main() starts take no step here: they share no variable
\* with main() and are explored on their own under SpecDelivery.
Next ==
    \/ MainStart
    \/ \E result \in {"ok", "unsupported", "throw"} : TokensReturn(result)
    \/ \E ok \in BOOLEAN : LoadReturn(ok)
    \/ \E o \in Observations(cfg.variant) : FetchReturn(o)
    \/ \E ok \in BOOLEAN : BlockhashReturn(ok, 0)
    \/ SleepWake
    \/ BackoffWake
    \/ Interrupt
    \/ AdvanceClock

Spec == Init /\ [][Next]_vars

-----------------------------------------------------------------------------
(* One delivery whose broadcasts return and whose timers fire *)

\* when the timer a delivery waits for is due
Due(d) == IF d.pc = "probe" THEN d.probeAt + RaceWait ELSE d.wake

LongestTimeout == CHOOSE t \in Timeouts : \A u \in Timeouts : u <= t

\* the latest time a timer of a delivery started within the explored time
\* can be due
DeliveryHorizon ==
    Epoch + MaxDeliveryElapsed + LongestTimeout + RaceWait + DefaultPollInterval

\* Time passes as in AdvanceDeliveryClock, and a pending timer is waited
\* out however late it is due.
AdvanceDeliveryLiveClock ==
    \/ AdvanceDeliveryClock
    \/ /\ \E n \in DOMAIN deliveries :
            /\ deliveries[n].pc \in {"probe", "poll"}
            /\ clock < Due(deliveries[n])
            /\ Due(deliveries[n]) <= DeliveryHorizon
            /\ clock' = Due(deliveries[n])
       /\ UNCHANGED <<mainVars, deliveries>>

\* the steps the channel and the timers owe the delivery: each broadcast
\* call returns, each sleep ends
OwedStep ==
    \E n \in DOMAIN deliveries :
        \/ SendReturn(n, TRUE)
        \/ ResendReturn(n, TRUE)
        \/ ProbeTimer(n)
        \/ PollWake(n)

\* a status query answers: it may as well never do
QueryAnswers == \E n \in DOMAIN deliveries : ProbeAnswer(n)

NextDeliveryLive ==
    \/ OwedStep
    \/ QueryAnswers
    \/ AdvanceDeliveryLiveClock

SpecDeliveryLive ==
    /\ InitDelivery
    /\ [][NextDeliveryLive]_vars
    /\ WF_vars(OwedStep)
    /\ WF_vars(AdvanceDeliveryLiveClock)

-----------------------------------------------------------------------------
(* main() of update_msol_oracle.ts together with the deliveries it starts *)

SystemConfigs ==
    { c \in Configs : /\ c.present
                      /\ c.variant = "msol"
                      /\ c.updateThreshold = 1
                      /\ c.inactiveDuration = 1500
                      /\ ~c.allowNegativeSpread }

\* the venue's answers explored together with the deliveries
SystemObservations(variant) ==
    { o \in Observations(variant) : o.kind = "throw" \/ o.bid \in {0, 100, 105} }

\* Time passes as in AdvanceClock; the OUTER_INTERVAL step is also taken
\* while a delivery waits for its confirmation, and such a delivery may be
\* left waiting for a whole TX_DURATION (at most MaxTimeouts times).
AdvanceSystemClock ==
    /\ \/ /\ ((clock - Epoch) % OUTER_INTERVAL) + Quantum <= MaxSystemElapsed
          /\ clock' = clock + Quantum
       \/ /\ \/ pc = "backoff"
             \/ \E n \in DOMAIN deliveries : deliveries[n].pc = "poll"
          /\ (clock - Epoch) \div OUTER_INTERVAL < MaxBackoffs
          /\ clock' = clock + OUTER_INTERVAL
       \/ /\ \E n \in DOMAIN deliveries : deliveries[n].pc = "poll"
          /\ (clock - Epoch) \div TX_DURATION < MaxTimeouts
          /\ clock' = clock + TX_DURATION
    /\ UNCHANGED <<mainVars, deliveries>>

InitSystem ==
    /\ cfg \in SystemConfigs
    /\ clock = Epoch
    /\ done = FALSE
    /\ pc = "init"
    /\ now = 0
    /\ wake = 0
    /\ pending = NoPending
    /\ lastUpdate = 0
    /\ lastPrice = 0
    /\ lastStatus = 0
    /\ connected = FALSE
    /\ dec = NoDec
    /\ inact = NoInact
    /\ deliveries = << >>
    /\ count = 0
    /\ tx = NoTx

NextSystem ==
    \/ MainStart
    \/ \E o \in SystemObservations(cfg.variant) : FetchReturn(o)
    \/ \E ok \in BOOLEAN, confirmAt \in {0, 1} : BlockhashReturn(ok, confirmAt)
    \/ SleepWake
    \/ BackoffWake
    \/ Interrupt
    \/ DeliveryStep
    \/ AdvanceSystemClock

SpecSystem == InitSystem /\ [][NextSystem]_vars

-----------------------------------------------------------------------------
(* main() under the assumption that its network calls and sleeps complete *)

LiveConfigs ==
    { c \in Configs : /\ c.present
                      /\ c.updateThreshold = 1
                      /\ c.inactiveDuration = 1500
                      /\ ~c.allowNegativeSpread }

\* the latest time a sleep started within the explored time can end
LiveHorizon == Epoch + (MaxBackoffs + 1) * OUTER_INTERVAL + MaxElapsed

\* Time passes as in AdvanceClock; once the flag is set, the sleep main()
\* is in is also waited out, however long it is.
AdvanceLiveClock ==
    \/ AdvanceClock
    \/ /\ done
       /\ pc \in {"sleeping", "backoff"}
       /\ clock < wake
       /\ wake <= LiveHorizon
       /\ clock' = wake
       /\ UNCHANGED <<mainVars, deliveries>>

\* the continuations of main(): each runs once the call or the sleep it
\* awaits has settled
MainStep ==
    \/ MainStart
    \/ \E result \in {"ok", "unsupported", "throw"} : TokensReturn(result)
    \/ \E ok \in BOOLEAN : LoadReturn(ok)
    \/ \E o \in Observations(cfg.variant) : FetchReturn(o)
    \/ \E ok \in BOOLEAN : BlockhashReturn(ok, 0)
    \/ SleepWake
    \/ BackoffWake

InitLive ==
    /\ cfg \in LiveConfigs
    /\ clock = Epoch
    /\ done = FALSE
    /\ pc = "init"
    /\ now = 0
    /\ wake = 0
    /\ pending = NoPending
    /\ lastUpdate = 0
    /\ lastPrice = 0
    /\ lastStatus = 0
    /\ connected = FALSE
    /\ dec = NoDec
    /\ inact = NoInact
    /\ deliveries = << >>
    /\ count = 0
    /\ tx = NoTx

NextLive ==
    \/ MainStep
    \/ Interrupt
    \/ AdvanceLiveClock

\* every pending call and sleep completes; time does not stop
SpecLive ==
    /\ InitLive
    /\ [][NextLive]_vars
    /\ WF_vars(MainStep)
    /\ WF_vars(AdvanceLiveClock)

-----------------------------------------------------------------------------
(* The sample script, and every script started without its config file *)

\* main(config) of the sample script: the config, if any, is logged and the
\* first wait starts
SampleStart ==
    /\ pc = "init"
    /\ cfg.variant = "sample"
    /\ pc' = "wait"
    /\ wake' = clock + SampleWait
    /\ count' = 0
    /\ UNCHANGED <<tx, cfg, clock, done, now, pending, lastUpdate, lastPrice,
                   lastStatus, connected, dec, inact, deliveries>>

SampleWake_noBreak ==
    /\ pc = "wait"
    /\ clock >= wake
    /\ count' = count + 1
    /\ IF count + 1 < SampleLoops
       THEN pc' = "wait" /\ wake' = clock + SampleWait
       ELSE pc' = "returned" /\ UNCHANGED wake
    /\ UNCHANGED <<tx, cfg, clock, done, now, pending, lastUpdate, lastPrice,
                   lastStatus, connected, dec, inact, deliveries>>

\* sleep(1000) fulfils: `if (this.done) break`, then `++i` and `i < 5`
SampleWake ==
    /\ pc = "wait"
    /\ clock >= wake
    /\ IF done
       THEN pc' = "returned" /\ UNCHANGED <<wake, count>>
       ELSE /\ count' = count + 1
            /\ IF count + 1 < SampleLoops
               THEN pc' = "wait" /\ wake' = clock + SampleWait
               ELSE pc' = "returned" /\ UNCHANGED wake
    /\ UNCHANGED <<tx, cfg, clock, done, now, pending, lastUpdate, lastPrice,
                   lastStatus, connected, dec, inact, deliveries>>

AdvanceSampleClock ==
    /\ clock + Quantum <= Epoch + MaxSampleElapsed
    /\ clock' = clock + Quantum
    /\ UNCHANGED <<mainVars, deliveries>>

\* the config file is absent: readToml catches the error and returns null
InitSample ==
    /\ cfg \in { NoConfigOf(v) : v \in Variants \cup {"sample"} }
    /\ clock = Epoch
    /\ done = FALSE
    /\ pc = "init"
    /\ now = 0
    /\ wake = 0
    /\ pending = NoPending
    /\ lastUpdate = 0
    /\ lastPrice = 0
    /\ lastStatus = 0
    /\ connected = FALSE
    /\ dec = NoDec
    /\ inact = NoInact
    /\ deliveries = << >>
    /\ count = 0
    /\ tx = NoTx

NextSample ==
    \/ cfg.variant # "sample" /\ MainStart
    \/ SampleStart
    \/ SampleWake
    \/ Interrupt
    \/ AdvanceSampleClock

SpecSample == InitSample /\ [][NextSample]_vars

-----------------------------------------------------------------------------
(* composeUpdatePriceTransaction: the instruction data *)

\* A 64-bit quantity is kept as four 16-bit limbs, least significant first,
\* with its sign apart: [neg, mag].
Limb == 65536

Magnitude(v) == IF v < 0 THEN 0 - v ELSE v

\* v * scale for |v| < 2^15 and 0 <= scale < 2^31, limb by limb
Times(v, scale) ==
    LET a  == Magnitude(v)
        p0 == a * (scale % Limb)
        p1 == a * (scale \div Limb) + (p0 \div Limb)
    IN  [neg |-> v < 0,
         mag |-> <<p0 % Limb, p1 % Limb, p1 \div Limb, 0>>]

\* 2^64 - mag, for mag # 0
Complement(mag) ==
    LET c1 == (Limb - 1 - mag[1]) + 1
        c2 == (Limb - 1 - mag[2]) + (c1 \div Limb)
        c3 == (Limb - 1 - mag[3]) + (c2 \div Limb)
        c4 == (Limb - 1 - mag[4]) + (c3 \div Limb)
    IN  <<c1 % Limb, c2 % Limb, c3 % Limb, c4 % Limb>>

IsZero(mag) == mag = <<0, 0, 0, 0>>

\* little-endian bytes of the four limbs
Bytes64(mag) ==
    <<mag[1] % 256, mag[1] \div 256, mag[2] % 256, mag[2] \div 256,
      mag[3] % 256, mag[3] \div 256, mag[4] % 256, mag[4] \div 256>>

\* u8
u8(v) == <<v % 256>>

\* nu64: unsigned 64-bit little-endian
nu64(q) == Bytes64(q.mag)

\* ns64: two's complement 64-bit little-endian
ns64(q) ==
    IF q.neg /\ ~IsZero(q.mag) THEN Bytes64(Complement(q.mag)) ELSE Bytes64(q.mag)

\* u32: unsigned 32-bit little-endian (v < 2^31)
u32(v) ==
    <<v % 256, (v \div 256) % 256, (v \div 65536) % 256, (v \div 16777216) % 256>>

composeUpdatePriceTransaction_unsignedPrice(price, confidence, status) ==
    u8(UpdatePriceInstruction) \o nu64(Times(price, PriceScale))
        \o nu64(Times(confidence, ConfidenceScale)) \o u32(status)

\* struct([u8('instruction'), ns64('price'), nu64('confidence'), u32('status')])
\* encoded into a buffer of the layout's span
composeUpdatePriceTransaction(price, confidence, status) ==
    u8(UpdatePriceInstruction) \o ns64(Times(price, PriceScale))
        \o nu64(Times(confidence, ConfidenceScale)) \o u32(status)

\* The reader's side of the layout: the four fields at their offsets.
Limbs(b) ==
    <<b[1] + 256 * b[2], b[3] + 256 * b[4], b[5] + 256 * b[6], b[7] + 256 * b[8]>>

DecodeUnsigned(b) == [neg |-> FALSE, mag |-> Limbs(b)]

DecodeSigned(b) ==
    IF b[8] >= 128
    THEN [neg |-> TRUE, mag |-> Complement(Limbs(b))]
    ELSE [neg |-> FALSE, mag |-> Limbs(b)]

Decode(data) ==
    [ instruction |-> data[1],
      price       |-> DecodeSigned(SubSeq(data, 2, 9)),
      confidence  |-> DecodeUnsigned(SubSeq(data, 10, 17)),
      status      |-> data[18] + 256 * data[19] + 65536 * data[20]
                        + 16777216 * data[21] ]

PayloadPrices == (-2 .. 2) \cup {22, 0 - 22, 100, MaxPayloadPrice, 0 - MaxPayloadPrice}

PayloadConfidences == {0, 1, 5, 100}

PayloadStatuses == {Invalid, Valid}

\* updatePrice composes the transaction for its arguments
Compose ==
    /\ pc = "compose"
    /\ tx' = [tx EXCEPT !.data = composeUpdatePriceTransaction(tx.price, tx.confidence, tx.status)]
    /\ pc' = "composed"
    /\ UNCHANGED <<cfg, clock, done, now, wake, pending, lastUpdate, lastPrice,
                   lastStatus, connected, dec, inact, deliveries, count>>

InitPayload ==
    /\ cfg = NoConfig
    /\ clock = Epoch
    /\ done = FALSE
    /\ pc = "compose"
    /\ now = 0
    /\ wake = 0
    /\ pending = NoPending
    /\ lastUpdate = 0
    /\ lastPrice = 0
    /\ lastStatus = 0
    /\ connected = FALSE
    /\ dec = NoDec
    /\ inact = NoInact
    /\ deliveries = << >>
    /\ count = 0
    /\ \E p \in PayloadPrices, c \in PayloadConfidences, st \in PayloadStatuses :
          tx = [price |-> p, confidence |-> c, status |-> st, data |-> << >>]

NextPayload == Compose

SpecPayload == InitPayload /\ [][NextPayload]_vars

-----------------------------------------------------------------------------
(* Properties of one delivery (SpecDelivery) *)

Min(a, b) == IF a <= b THEN a ELSE b

Deliveries == { deliveries[i] : i \in DOMAIN deliveries }

C5_AsStated ==
    \A d \in Deliveries :
        (d.confirmAt = 0 /\ d.pc = "done" /\ ~d.confirmed) =>
            d.endAt - d.start = d.timeout

\* C5 amended: against a channel that never confirms, the unconfirmed result
\* is returned at the first loop test at which at least `timeout` has
\* elapsed since the first broadcast returned: never before the deadline,
\* and the last iteration started before it.
C5_ReturnsAtFirstTestPastDeadline ==
    \A d \in Deliveries :
        (d.confirmAt = 0 /\ d.pc = "done" /\ ~d.confirmed) =>
            /\ d.endAt - d.start >= d.timeout
            /\ d.queries > 0 => d.timestamp - d.start < d.timeout

C5_Witness ==
    \E d \in Deliveries :
        /\ d.confirmAt = 0 /\ d.pc = "done" /\ ~d.confirmed
        /\ d.endAt - d.start > d.timeout

\* C6: a delivery never issues more than sendRetries + 1 broadcasts.
C6_BroadcastBudget ==
    \A d \in Deliveries : d.broadcasts <= d.sendRetries + 1

\* the budget is what stopped a rebroadcast that was otherwise due
C6_Witness ==
    \E d \in Deliveries :
        /\ d.sendRetries > 0 /\ d.broadcasts = d.sendRetries + 1
        /\ d.pc = "probe"
        /\ d.timestamp - d.lastSendTimestamp > d.sendInterval

\* C7 as stated: a failing broadcast or status query is taken as "no
\* confirmation yet"; no delivery ends with an error.
C7_NoDeliveryEndsWithError ==
    \A d \in Deliveries : d.pc # "rejected"

-----------------------------------------------------------------------------
(* Properties of the publisher (Spec) *)

DeviationExceeds(price, base, threshold) ==
    Abs(price - base) * 100 > threshold * Abs(base)

\* C1 as stated: with lastPrice # 0, needUpdate answers true iff
\* now >= lastUpdate + updateInterval or the deviation exceeds updateThreshold.
C1_AsStated ==
    (dec.result # "none" /\ dec.lastPrice # 0) =>
        (dec.result = "true" <=>
            \/ dec.now >= dec.lastUpdate + cfg.updateInterval
            \/ DeviationExceeds(dec.price, dec.lastPrice, cfg.updateThreshold))

\* C1 amended: with lastPrice # 0, needUpdate answers true iff
\* now > lastUpdate + updateInterval (strictly) or the deviation exceeds
\* updateThreshold (strictly); it never faults there.
C1_UpdateDecision ==
    (dec.result # "none" /\ dec.lastPrice # 0) =>
        /\ dec.result \in {"true", "false"}
        /\ dec.result = "true" <=>
            \/ dec.now > dec.lastUpdate + cfg.updateInterval
            \/ DeviationExceeds(dec.price, dec.lastPrice, cfg.updateThreshold)

\* both boundaries at once: exactly updateInterval after the last update,
\* with a deviation of exactly updateThreshold percent: no publish
C1_Witness ==
    /\ dec.result = "false"
    /\ dec.now = dec.lastUpdate + cfg.updateInterval
    /\ dec.lastPrice = 100 /\ dec.price = 105 /\ cfg.updateThreshold = 5

\* C2: a tick that reaches the inactivity check calls for the forced Invalid
\* publish of lastPrice iff inactiveDuration # 0 and
\* now > lastUpdate + inactiveDuration and lastStatus is Valid; with
\* inactiveDuration = 0 there never is such a publish.
C2_InactivityRule ==
    /\ inact.result # "none" =>
          (inact.result = "fired" <=>
              /\ cfg.inactiveDuration # 0
              /\ inact.now > inact.lastUpdate + cfg.inactiveDuration
              /\ inact.lastStatus = Valid)
    /\ (inact.result = "fired" /\ pc = "blockhash") =>
          pending = [kind |-> "inact", price |-> lastPrice, status |-> Invalid,
                     now |-> now]
    /\ pending.kind = "inact" => inact.result = "fired"
    /\ \A d \in Deliveries :
          d.kind = "inact" => (d.status = Invalid /\ cfg.inactiveDuration # 0)

C2_Witness ==
    /\ inact.result = "fired"
    /\ \E d \in Deliveries :
          d.kind = "inact" /\ d.status = Invalid /\ d.now = inact.now

\* C3: (Jupiter) the status of an observation-triggered publish is Invalid
\* iff (bid > ask and allowNegativeSpread is false) or price < minThreshold
\* or price > maxThreshold, and Valid otherwise.
C3_StatusComputation ==
    (cfg.variant = "jupiter" /\ dec.result = "true") =>
        LET invalid == \/ dec.bid > dec.ask /\ ~cfg.allowNegativeSpread
                       \/ dec.price < cfg.minThreshold
                       \/ dec.price > cfg.maxThreshold
            status  == IF invalid THEN Invalid ELSE Valid
        IN  /\ (pc = "blockhash" /\ pending.kind = "obs") => pending.status = status
            /\ \A d \in Deliveries :
                  (d.kind = "obs" /\ d.now = dec.now) => d.status = status

\* a negative spread alone makes the published status Invalid
C3_Witness ==
    /\ cfg.variant = "jupiter" /\ ~cfg.allowNegativeSpread
    /\ dec.result = "true" /\ dec.bid > dec.ask
    /\ dec.price >= cfg.minThreshold /\ dec.price <= cfg.maxThreshold
    /\ \E d \in Deliveries :
          d.kind = "obs" /\ d.now = dec.now /\ d.status = Invalid

\* C8 as stated: with a nonzero inactiveDuration <= updateInterval main
\* returns before the loop: no connection is made, nothing is broadcast.
C8_StartupInvariant ==
    (cfg.present /\ cfg.inactiveDuration # 0
        /\ cfg.inactiveDuration <= cfg.updateInterval) =>
        /\ ~connected
        /\ deliveries = << >>
        /\ pc \in {"init", "returned"}

\* C9 as stated: whenever the decision is taken on a zero baseline
\* (lastPrice = 0) the answer is "publish"; it never faults.
C9_ZeroBaseline ==
    (dec.result # "none" /\ dec.lastPrice = 0) => dec.result = "true"

\* C10: as long as nothing has been published since process start, a usable
\* observation is always published: needUpdate answers true and updatePrice
\* is called with the observed price, whatever the value and thresholds.
C10_FirstObservation ==
    (dec.result # "none" /\ dec.lastUpdate = 0 /\ deliveries = << >>) =>
        /\ dec.result = "true"
        /\ pc = "blockhash" => (pending.kind = "obs" /\ pending.price = dec.price)

C10_Witness ==
    /\ dec.result = "true" /\ dec.lastUpdate = 0
    /\ Len(deliveries) = 1
    /\ deliveries[1].kind = "obs" /\ deliveries[1].price = dec.price
    /\ lastPrice = dec.price /\ lastUpdate = dec.now

\* C14: an error while connecting or in a tick body never ends main(): once
\* the loop has been entered main() returns only with the interrupt flag
\* set; otherwise the error leads into a backoff of OUTER_INTERVAL, after
\* which the connection is rebuilt and the tick loop entered again.
C14_ErrorRecovery ==
    /\ [](pc = "returned" /\ connected => done)
    /\ [][(pc \in {"loading", "fetching", "blockhash"} /\ pc' = "backoff")
            => (~done /\ wake' = clock + OUTER_INTERVAL
                /\ UNCHANGED <<lastUpdate, lastPrice, lastStatus>>)]_vars
    /\ [][(pc = "backoff" /\ pc' # "backoff")
            => (clock >= wake /\ IF done THEN pc' = "returned"
                                 ELSE connected' /\ pc' \in {"loading", "fetching"})]_vars

\* a tick runs again after an error and its backoff
C14_Witness ==
    /\ pc = "fetching" /\ ~done
    /\ now >= Epoch + OUTER_INTERVAL

\* C15: once the interrupt flag is set, main() starts no new tick, no new
\* fetchInterval sleep, no new backoff sleep (and no new Jupiter.load).
C15_ShutdownChecks ==
    [][done => /\ pc' = "fetching" => pc = "fetching"
               /\ pc' = "sleeping" => pc = "sleeping"
               /\ pc' = "backoff" => pc = "backoff"
               /\ pc' = "loading" => pc = "loading"]_vars

\* a tick ran to its end with the flag set and main() returned instead of
\* sleeping
C15_Witness ==
    /\ done /\ pc = "returned"
    /\ inact.result = "skipped"

\* C17 as stated: with the configuration missing or violating the startup
\* invariant (a nonzero inactiveDuration that does not exceed
\* updateInterval) main() returns without a connection and without a
\* broadcast.
C17_ConfigErrors ==
    (\/ ~cfg.present
     \/ cfg.inactiveDuration # 0 /\ ~(cfg.inactiveDuration > cfg.updateInterval)) =>
        /\ pc \in {"init", "returned"}
        /\ ~connected
        /\ Len(deliveries) = 0

\* C19 as stated, on one tick: when the last publish was Valid,
\* inactiveDuration is nonzero (and exceeds updateInterval, as the startup
\* invariant asks) and more than inactiveDuration has passed, a
\* tick that obtains no observation calls for the Invalid publish before it
\* ends (in its sleep or in the backoff).
C19_StalenessGuard ==
    (/\ pc \in {"sleeping", "backoff"}
     /\ dec.result = "none"
     /\ cfg.inactiveDuration > cfg.updateInterval
     /\ lastStatus = Valid
     /\ now > lastUpdate + cfg.inactiveDuration) =>
        inact.result = "fired"

\* C18: started without its config file no script fails, connects,
\* publishes or takes up default settings; the oracle scripts return at
\* once, the sample script makes at most SampleLoops waits of SampleWait ms
\* and returns at the first wait boundary after an interrupt.
C18_MissingConfig ==
    /\ [](~cfg.present =>
            /\ ~connected /\ Len(deliveries) = 0
            /\ lastUpdate = 0 /\ lastPrice = 0 /\ lastStatus = 0
            /\ pc \in {"init", "wait", "returned"})
    /\ [](cfg.variant # "sample" => pc \in {"init", "returned"})
    /\ [](cfg.variant = "sample" =>
            /\ pc = "wait" => (count < SampleLoops /\ wake <= Epoch + MaxSampleElapsed + SampleWait)
            /\ pc = "returned" => (count = SampleLoops \/ done))
    /\ [][(pc = "wait" /\ done /\ <<pc, wake, count>>' # <<pc, wake, count>>)
            => (pc' = "returned" /\ clock >= wake)]_vars
    /\ [][pc = "returned" => pc' = "returned"]_vars

\* the sample script, interrupted during its second wait, stops after it
C18_Witness ==
    /\ cfg.variant = "sample" /\ ~cfg.present
    /\ pc = "returned" /\ done /\ count = 1

-----------------------------------------------------------------------------
(* Properties of main() with its deliveries (SpecSystem) *)

\* the deliveries started before the tick of time t
StartedBefore(t) == { n \in DOMAIN deliveries : deliveries[n].now < t }

Latest(S) == CHOOSE n \in S : \A m \in S : m <= n

\* C11: once updatePrice has completed, the oracle state is the price,
\* status and time of the transaction it submitted, whatever has become of
\* that delivery (unsent, rejected, unconfirmed, timed out); the decision of
\* a later tick is taken against the values of the latest earlier publish.
C11_OptimisticUpdate ==
    /\ deliveries # << >> =>
          LET d == deliveries[Len(deliveries)]
          IN  lastPrice = d.price /\ lastStatus = d.status /\ lastUpdate = d.now
    /\ dec.result # "none" =>
          IF StartedBefore(dec.now) = {}
          THEN dec.lastUpdate = 0 /\ dec.lastPrice = 0
          ELSE LET d == deliveries[Latest(StartedBefore(dec.now))]
               IN  dec.lastUpdate = d.now /\ dec.lastPrice = d.price

\* a tick decided against a publish whose delivery then timed out
C11_Witness ==
    \E n \in DOMAIN deliveries :
        /\ deliveries[n].pc = "done" /\ ~deliveries[n].confirmed
        /\ dec.result # "none"
        /\ dec.now > deliveries[n].now /\ dec.now < deliveries[n].endAt
        /\ dec.lastUpdate = deliveries[n].now
        /\ dec.lastPrice = deliveries[n].price

\* C12: a publish whose initial broadcast failed has left lastUpdate (and
\* with it lastPrice, lastStatus) at the previous values.
C12_MutatedOnlyAfterSubmission ==
    \A n \in DOMAIN deliveries :
        (deliveries[n].pc = "rejected" /\ deliveries[n].start = 0) =>
            lastUpdate # deliveries[n].now

\* C13: the step of main() that starts a delivery leaves it unsettled and
\* goes straight on to the sleep (or returns), touching no other delivery;
\* the next tick waits for the sleep timer only.
C13_FireAndForget ==
    /\ [][Len(deliveries') > Len(deliveries) =>
            /\ deliveries'[Len(deliveries')].pc = "send"
            /\ pc' \in {"sleeping", "returned"}
            /\ \A n \in DOMAIN deliveries : deliveries'[n] = deliveries[n]]_vars
    /\ []((pc = "sleeping" /\ clock >= wake) => ENABLED SleepWake)

\* two deliveries in flight while main() sleeps
C13_Witness ==
    /\ Len(deliveries) = 2
    /\ pc = "sleeping"
    /\ \A n \in DOMAIN deliveries :
          deliveries[n].pc \in {"probe", "poll"} /\ ~deliveries[n].confirmed

\* C20: a step of a delivery leaves lastPrice, lastStatus and lastUpdate
\* alone; they change only in the step of updatePrice that starts a delivery.
C20_DeliveriesKeepState ==
    /\ [][(Len(deliveries') = Len(deliveries) /\ deliveries' # deliveries)
            => UNCHANGED <<lastPrice, lastStatus, lastUpdate>>]_vars
    /\ [][<<lastPrice, lastStatus, lastUpdate>>' # <<lastPrice, lastStatus, lastUpdate>>
            => /\ pc = "blockhash"
               /\ Len(deliveries') = Len(deliveries) + 1
               /\ \A n \in DOMAIN deliveries : deliveries'[n] = deliveries[n]]_vars

\* one delivery rebroadcast and timed out, another confirmed
C20_Witness ==
    /\ Len(deliveries) = 2
    /\ deliveries[1].pc = "done" /\ ~deliveries[1].confirmed
    /\ deliveries[1].broadcasts >= 2
    /\ deliveries[2].pc = "done" /\ deliveries[2].confirmed
    /\ lastUpdate = deliveries[2].now

-----------------------------------------------------------------------------
(* Shutdown (SpecLive) *)

\* C16: once the interrupt has set the flag, main() eventually returns
\* (its pending calls and sleeps completing); having returned it never
\* resumes, and the flag is never cleared.
C16_ShutdownLiveness ==
    /\ done ~> (pc = "returned")
    /\ [][pc = "returned" => pc' = "returned"]_vars
    /\ [][done => done']_vars

\* main() returned after an interrupt that found it in the outer backoff
C16_Witness ==
    /\ done /\ pc = "returned"
    /\ wake >= Epoch + OUTER_INTERVAL
    /\ clock >= wake /\ now < Epoch + OUTER_INTERVAL

-----------------------------------------------------------------------------
(* Deliveries left to themselves (SpecSystem) *)

\* C21: a delivery that was started stops only with a confirmation or
\* after its deadline, whatever main() does meanwhile (flag set, returned,
\* back in the outer backoff).
C21_NeverCancelled ==
    \A n \in DOMAIN deliveries :
        deliveries[n].pc \notin {"send", "resend", "probe", "poll"} =>
            /\ deliveries[n].pc = "done"
            /\ \/ deliveries[n].confirmed
               \/ deliveries[n].endAt - deliveries[n].start >= deliveries[n].timeout

-----------------------------------------------------------------------------
(* The instruction data (SpecPayload) *)

\* the value a field of the payload stands for, zero carrying no sign
Normal(q) == IF IsZero(q.mag) THEN [q EXCEPT !.neg = FALSE] ELSE q

\* C22: the instruction data is 21 bytes: instruction (u8, 0), price (signed
\* 64-bit, price x 1e8), confidence (unsigned 64-bit, confidence x 1e4),
\* status (u32), in that order; reading the fields back gives price x 1e8,
\* confidence x 1e4 and status, for zero and negative prices too.
C22_PayloadRoundTrip ==
    pc = "composed" =>
        /\ Len(tx.data) = 21
        /\ \A k \in DOMAIN tx.data : tx.data[k] \in 0 .. 255
        /\ Decode(tx.data) = [ instruction |-> 0,
                               price |-> Normal(Times(tx.price, PriceScale)),
                               confidence |-> Normal(Times(tx.confidence, ConfidenceScale)),
                               status |-> tx.status ]

\* a negative price beyond 32 bits: -22 x 1e8, sign-extended to 64 bits
C22_Witness ==
    /\ pc = "composed"
    /\ tx.price = 0 - 22
    /\ tx.confidence = 5
    /\ tx.status = Valid
    /\ tx.data = <<0, 0, 170, 222, 124, 255, 255, 255, 255,
                   80, 195, 0, 0, 0, 0, 0, 0, 1, 0, 0, 0>>

-----------------------------------------------------------------------------
(* The delivery loop, iteration by iteration (SpecDelivery) *)

\* C23 as stated: an iteration rebroadcasts if and only if fewer than
\* sendRetries rebroadcasts were made and at least sendInterval has passed
\* since the last broadcast; an iteration that went on to its probe without
\* rebroadcasting therefore had no rebroadcast due.
C23_AsStated ==
    \A d \in Deliveries :
        (d.pc = "probe" /\ d.timestamp # d.lastSendTimestamp) =>
            ~(d.retries < d.sendRetries
              /\ d.timestamp - d.lastSendTimestamp >= d.sendInterval)

\* C23 amended: the loop head rebroadcasts if and only if fewer than
\* sendRetries rebroadcasts were made and more than sendInterval has passed
\* since the last broadcast; the rebroadcast restarts that timer at the
\* iteration's timestamp.
C23_RebroadcastRule ==
    [][\A n \in DOMAIN deliveries :
         LET d == deliveries[n]
             e == deliveries'[n]
             due == d.retries < d.sendRetries
                    /\ clock - d.lastSendTimestamp > d.sendInterval
         IN  (d.pc = "poll" /\ e.pc # "poll") =>
                /\ e.pc = "resend" <=> (clock - d.start < d.timeout /\ due)
                /\ e.pc = "resend" =>
                      /\ e.lastSendTimestamp = clock /\ e.timestamp = clock
                      /\ e.retries = d.retries + 1
                      /\ e.broadcasts = d.broadcasts + 1
                      /\ e.lastSendTimestamp - d.lastSendTimestamp > d.sendInterval
                /\ e.pc = "probe" =>
                      /\ e.lastSendTimestamp = d.lastSendTimestamp
                      /\ e.retries = d.retries]_vars

\* an iteration exactly sendInterval after the last broadcast went on
\* without rebroadcasting, with rebroadcasts left
C23_Witness ==
    \E d \in Deliveries :
        /\ d.pc = "probe" /\ d.retries < d.sendRetries
        /\ d.timestamp - d.lastSendTimestamp = d.sendInterval

\* C24: the probe that yields a confirmation ends the delivery at once
\* with the confirmed result, and a delivery that has returned issues no
\* further broadcast or status query and starts no further sleep.
C24_ReturnOnConfirmation ==
    /\ [][\A n \in DOMAIN deliveries :
            LET d == deliveries[n]
                e == deliveries'[n]
            IN  /\ (d.pc = "probe" /\ e # d /\ Confirms(d) /\ e.slow = d.slow) =>
                      /\ e.pc = "done" /\ e.confirmed /\ e.endAt = clock
                      /\ e.broadcasts = d.broadcasts /\ e.queries = d.queries
                /\ e.confirmed => e.pc = "done"
                /\ d.pc = "done" => e = d]_vars
    /\ [](\A d \in Deliveries : d.confirmed => (d.pc = "done" /\ d.queries >= d.confirmAt))

\* confirmed by the first status query, nothing rebroadcast
C24_Witness ==
    \E d \in Deliveries :
        /\ d.pc = "done" /\ d.confirmed
        /\ d.queries = 1 /\ d.broadcasts = 1 /\ d.endAt = d.start

\* C25 as stated: the wait raced against the status query is shorter than
\* pollInterval, and an unconfirmed iteration sleeps the remainder of
\* pollInterval: its sleep ends pollInterval after the iteration started.
C25_AsStated ==
    \A d \in Deliveries :
        d.pc = "poll" =>
            /\ RaceWait < d.pollInterval
            /\ d.wake = d.timestamp + d.pollInterval

\* C25 amended: an unconfirmed iteration sleeps the whole pollInterval
\* after its race has settled, and the race settled by the fixed wait has
\* taken RaceWait; the next iteration starts when that sleep has ended.
C25_PollCadence ==
    /\ [][\A n \in DOMAIN deliveries :
            LET d == deliveries[n]
                e == deliveries'[n]
            IN  /\ (d.pc = "probe" /\ e.pc = "poll") =>
                      /\ e.wake = clock + d.pollInterval
                      /\ e.slow > d.slow => clock >= d.probeAt + RaceWait
                /\ (d.pc = "poll" /\ e.pc # "poll") =>
                      /\ clock >= d.wake
                      /\ e.pc # "done" => e.timestamp = clock]_vars
    /\ [](\A d \in Deliveries :
            d.pc = "poll" => /\ d.wake >= d.timestamp + d.pollInterval
                             /\ d.wake >= d.probeAt + d.pollInterval)

\* an iteration whose query did not answer: its sleep ends RaceWait +
\* pollInterval after it started
C25_Witness ==
    \E d \in Deliveries :
        /\ d.pc = "poll" /\ d.slow >= 1 /\ d.pollInterval = DefaultPollInterval
        /\ d.wake = d.timestamp + RaceWait + d.pollInterval

-----------------------------------------------------------------------------
(* Termination of a delivery (SpecDeliveryLive) *)

\* C26: as long as every broadcast call returns, a delivery eventually
\* returns, confirmed or unconfirmed, also when no status query ever answers.
C26_DeliveryTerminates ==
    /\ <>(\A d \in Deliveries : d.pc = "done")
    /\ [](\A d \in Deliveries :
            d.pc = "done" => (d.confirmed \/ d.endAt - d.start >= d.timeout))

\* returned unconfirmed without any status query having answered
C26_Witness ==
    \E d \in Deliveries :
        /\ d.pc = "done" /\ ~d.confirmed
        /\ d.queries >= 2 /\ d.slow = d.queries

-----------------------------------------------------------------------------
(* The inactivity rule among the publishes of main() (Spec) *)

\* C27: the publish forced by the inactivity rule carries the current
\* lastPrice and status Invalid; it leaves lastPrice as it is, sets
\* lastStatus to Invalid and lastUpdate to the tick's now.
C27_InactivityPublish ==
    [][(pending.kind = "inact" /\ Len(deliveries') > Len(deliveries)) =>
          LET d == deliveries'[Len(deliveries')]
          IN  /\ d.kind = "inact"
              /\ d.price = lastPrice /\ d.status = Invalid /\ d.now = now
              /\ lastPrice' = lastPrice
              /\ lastStatus' = Invalid
              /\ lastUpdate' = now]_vars

\* a Valid price, later republished as Invalid by the rule
C27_Witness ==
    /\ Len(deliveries) = 2
    /\ deliveries[1].kind = "obs" /\ deliveries[1].status = Valid
    /\ deliveries[2].kind = "inact"
    /\ lastPrice = deliveries[1].price /\ lastPrice # 0
    /\ lastStatus = Invalid
    /\ lastUpdate = deliveries[2].now /\ lastUpdate > deliveries[1].now

\* C28: a tick starts at most one delivery: after an observation-triggered
\* publish the inactivity rule of that tick does not fire.
C28_OnePublishPerTick ==
    /\ \A m, n \in DOMAIN deliveries :
          m < n => deliveries[m].now < deliveries[n].now
    /\ pending.kind = "inact" => \A d \in Deliveries : d.now < pending.now
    /\ (dec.result = "true" /\ inact.result # "none") =>
          (inact.result = "skipped" /\ inact.lastUpdate = inact.now)

\* the rule's time condition held when the tick began, the tick published
\* its observation, and the rule did not fire
C28_Witness ==
    /\ cfg.inactiveDuration # 0
    /\ dec.result = "true" /\ dec.lastUpdate # 0
    /\ dec.now > dec.lastUpdate + cfg.inactiveDuration
    /\ inact.result = "skipped" /\ inact.now = dec.now
    /\ inact.lastStatus = Valid
    /\ Len(deliveries) = 2 /\ deliveries[1].status = Valid

\* C29: between two publishes forced by the inactivity rule there is an
\* observation-triggered publish with status Valid; the rule fires only
\* on a state whose latest publish was such a one.
C29_OncePerStalePeriod ==
    /\ \A m, n \in DOMAIN deliveries :
          (m < n /\ deliveries[m].kind = "inact" /\ deliveries[n].kind = "inact") =>
              \E k \in DOMAIN deliveries :
                  /\ m < k /\ k < n
                  /\ deliveries[k].kind = "obs" /\ deliveries[k].status = Valid
    /\ pending.kind = "inact" =>
          /\ deliveries # << >>
          /\ deliveries[Len(deliveries)].kind = "obs"
          /\ deliveries[Len(deliveries)].status = Valid

\* after a forced publish the time condition holds again and the rule
\* does not fire again
C29_Witness ==
    /\ deliveries # << >> /\ deliveries[Len(deliveries)].kind = "inact"
    /\ lastStatus = Invalid
    /\ inact.result = "skipped" /\ dec.result = "none"
    /\ inact.now > lastUpdate + cfg.inactiveDuration

\* C30: with inactiveDuration = 0 or >= updateInterval the inactivity rule
\* fires only in a tick without a usable observation: an observation made
\* when the rule's time condition holds is published by the freshness rule.
C30_FiresWithoutObservation ==
    (cfg.inactiveDuration = 0 \/ cfg.inactiveDuration >= cfg.updateInterval) =>
        /\ inact.result = "fired" => dec.result = "none"
        /\ (dec.result # "none" /\ cfg.inactiveDuration # 0
              /\ dec.now > dec.lastUpdate + cfg.inactiveDuration) =>
                 dec.result = "true"

\* the rule fired at inactiveDuration = updateInterval, nothing observed
C30_Witness ==
    /\ cfg.inactiveDuration = cfg.updateInterval
    /\ inact.result = "fired" /\ dec.result = "none"
    /\ inact.lastStatus = Valid

-----------------------------------------------------------------------------
(* The oracle state over the life of main() (Spec) *)

\* C31: lastStatus is Valid only after an observation-triggered publish
\* with status Valid, and then lastUpdate > 0; the inactivity rule fires
\* only after an observation-triggered publish; lastUpdate never decreases.
C31_NoInactivityBeforeFirstPublish ==
    /\ [](lastStatus = Valid =>
            /\ lastUpdate > 0
            /\ \E d \in Deliveries : d.kind = "obs" /\ d.status = Valid)
    /\ [](lastStatus \in {Valid, Invalid})
    /\ []((pending.kind = "inact" \/ inact.result = "fired") =>
            \E d \in Deliveries : d.kind = "obs" /\ d.now < inact.now)
    /\ [](\A n \in DOMAIN deliveries :
            deliveries[n].kind = "inact" =>
                \E m \in 1 .. (n - 1) : deliveries[m].kind = "obs")
    /\ [][lastUpdate' >= lastUpdate]_vars

\* nothing has been published, the rule's time condition holds (lastUpdate
\* is still 0), the tick observed nothing, and the rule did not fire
C31_Witness ==
    /\ deliveries = << >>
    /\ lastUpdate = 0 /\ lastPrice = 0 /\ lastStatus = Invalid
    /\ cfg.inactiveDuration # 0
    /\ dec.result = "none"
    /\ inact.result = "skipped" /\ inact.now > inact.lastUpdate + cfg.inactiveDuration

\* C32: a tick-body error, the backoff and the reconnection that follow
\* leave lastPrice, lastStatus and lastUpdate (and the configuration and
\* the started deliveries) as they were; the step out of the backoff
\* constructs the connection and the venue handle anew.
C32_StateSurvivesReconnection ==
    /\ [][(pc' = "backoff" \/ pc = "backoff") =>
            UNCHANGED <<lastUpdate, lastPrice, lastStatus, cfg, deliveries>>]_vars
    /\ [][(pc = "backoff" /\ pc' \in {"loading", "fetching"}) =>
            (connected' /\ pending' = NoPending)]_vars

\* a price was published, a later tick failed, and after the backoff a
\* tick runs on the state of that publish
C32_Witness ==
    /\ pc = "fetching" /\ ~done /\ connected
    /\ Len(deliveries) = 1 /\ deliveries[1].kind = "obs"
    /\ lastStatus = Valid /\ lastPrice = deliveries[1].price /\ lastPrice # 0
    /\ lastUpdate = deliveries[1].now
    /\ now >= lastUpdate + OUTER_INTERVAL

\* C33: in the mSOL script every observation-triggered publish has status
\* Valid whatever the price, no falsy mSolPrice is published (the decision
\* is not even taken on one), and a publish with status Invalid is one
\* forced by the inactivity rule.
C33_MSolStatus ==
    cfg.variant = "msol" =>
        /\ \A d \in Deliveries :
              /\ d.kind = "obs" => d.status = Valid
              /\ d.status = Invalid => d.kind = "inact"
              /\ d.price # 0
        /\ pending.kind = "obs" => (pending.status = Valid /\ pending.price # 0)
        /\ pending.kind = "inact" => (pending.status = Invalid /\ pending.price # 0)
        /\ dec.result # "none" => dec.price # 0

\* a price below minThreshold went out as Valid, and a later tick whose
\* mSolPrice was falsy published nothing
C33_Witness ==
    /\ cfg.variant = "msol"
    /\ Len(deliveries) = 1
    /\ deliveries[1].kind = "obs" /\ deliveries[1].status = Valid
    /\ deliveries[1].price < cfg.minThreshold
    /\ pc = "sleeping" /\ pending = NoPending
    /\ dec.result = "none" /\ inact.result = "skipped"
    /\ inact.now > deliveries[1].now

\* C34: once the interrupt flag is set no tick begins, so a delivery
\* started from then on belongs to the tick that was in progress; main()
\* returns in the very step that starts it, and starts none after it has
\* returned: at most one delivery is started after the interrupt.
C34_PublishesAfterInterrupt ==
    /\ [][done => now' = now]_vars
    /\ [][(done /\ deliveries' # deliveries) =>
            /\ Len(deliveries') = Len(deliveries) + 1
            /\ deliveries'[Len(deliveries')].now = now
            /\ pc' = "returned"]_vars
    /\ [][pc = "returned" => (pc' = "returned" /\ deliveries' = deliveries)]_vars

\* the interrupt came while a tick was waiting for its blockhash: that
\* tick started its delivery and main() returned from within it
C34_Witness ==
    /\ done /\ pc = "returned"
    /\ dec.result = "true" /\ dec.now = now
    /\ Len(deliveries) = 2
    /\ deliveries[2].kind = "obs" /\ deliveries[2].now = now
    /\ lastUpdate = now

=============================================================================
